---- MODULE Spec2Model ----
(***************************************************************************)
(* Requisition validation and normalisation of onmsctl                     *)
(* (model/provisioning.go), and the argument checks of the `intf` CLI      *)
(* subcommands.                                                            *)
(*                                                                         *)
(* Name-like strings (service, asset, category and requisition names,      *)
(* foreign IDs, node labels) are sequences of one-character strings so     *)
(* that the character-class match can scan them; every other Go string is  *)
(* an atomic TLA+ string.  A Go error is a record: kind is the format      *)
(* string that produced it, args its formatted values, dups the map keys   *)
(* a `for k, count := range m` loop may report (Go map iteration order is  *)
(* unspecified, the action picks one of them), wrap the node label and     *)
(* requisition name added by Requisition.IsValid.                          *)
(***************************************************************************)
EXTENDS Integers, Sequences, FiniteSets, TLC

VARIABLES pc, op, AllowFqdnOnRequisitionedInterfaces, dns, orig, obj, err, lookups

vars == <<pc, op, AllowFqdnOnRequisitionedInterfaces, dns, orig, obj, err, lookups>>

\* ------------------------------------------------------------------ bounds
MaxNameLen == 2
MaxMetaData == 1
MaxServices == 2
MaxInterfaces == 2
MaxNodes == 2

\* ------------------------------------------------------------------ errors
Nil == [kind |-> "nil", args |-> <<>>, dups |-> {}, wrap |-> <<>>]

Errorf(kind, args) == [kind |-> kind, args |-> args, dups |-> {}, wrap |-> <<>>]

ErrorfRange(kind, args, keys) == [kind |-> kind, args |-> args, dups |-> keys, wrap |-> <<>>]

\* ------------------------------------------------------ forbidden characters
\* The character class of the pattern `[/\\?:&*'"]`.
ForbiddenClass_NoColon == {"/", "\\", "?", "&", "*", "'", "\""}

ForbiddenClass == {"/", "\\", "?", ":", "&", "*", "'", "\""}

\* regexp.MatchString with that pattern: an unanchored search, so the name
\* matches when the class matches at some position.
RECURSIVE MatchFrom(_, _)
MatchFrom(s, i) ==
  IF i > Len(s) THEN FALSE
  ELSE IF s[i] \in ForbiddenClass THEN TRUE
  ELSE MatchFrom(s, i + 1)

MatchString(s) == MatchFrom(s, 1)

\* ---------------------------------------------------------------- meta-data
RequisitionMetaData_IsValid(m) ==
  LET m1 == IF m.Context = "" THEN [m EXCEPT !.Context = "requisition"] ELSE m
  IN  [obj |-> m1,
       err |-> IF m1.Key = "" THEN Errorf("Meta-data key cannot be empty", <<>>)
               ELSE IF m1.Value = ""
                    THEN Errorf("Meta-data value for key %s cannot be empty", <<m1.Key>>)
                    ELSE Nil]

\* `for i := range x.MetaData { m := &x.MetaData[i]; err := m.IsValid() ... }`:
\* the entries are validated through a pointer, so the defaults are stored.
RECURSIVE MetaDataLoopByPointer(_, _)
MetaDataLoopByPointer(ms, i) ==
  IF i > Len(ms) THEN [obj |-> ms, err |-> Nil]
  ELSE LET r == RequisitionMetaData_IsValid(ms[i])
           ms1 == [ms EXCEPT ![i] = r.obj]
       IN  IF r.err.kind # "nil" THEN [obj |-> ms1, err |-> r.err]
           ELSE MetaDataLoopByPointer(ms1, i + 1)

\* `for i := range intf.MetaData { m := intf.MetaData[i]; m.IsValid() ... }`:
\* m is a copy of the entry, the default set on it is lost.
RECURSIVE MetaDataLoopByCopy(_, _)
MetaDataLoopByCopy(ms, i) ==
  IF i > Len(ms) THEN [obj |-> ms, err |-> Nil]
  ELSE LET r == RequisitionMetaData_IsValid(ms[i])
       IN  IF r.err.kind # "nil" THEN [obj |-> ms, err |-> r.err]
           ELSE MetaDataLoopByCopy(ms, i + 1)

\* ----------------------------------------------------------------- services
\* Value receiver: Name cannot change, but s.MetaData shares its backing
\* array with the caller's slice, so the defaulted contexts are visible.
RequisitionMonitoredService_IsValid(s) ==
  IF s.Name = <<>> THEN [obj |-> s, err |-> Errorf("Service name cannot be empty", <<>>)]
  ELSE IF MatchString(s.Name)
       THEN [obj |-> s, err |-> Errorf("Invalid characters on service name %s", <<s.Name>>)]
       ELSE LET r == MetaDataLoopByPointer(s.MetaData, 1)
            IN  [obj |-> [s EXCEPT !.MetaData = r.obj], err |-> r.err]

RequisitionAsset_IsValid(a) ==
  IF a.Name = <<>> THEN Errorf("Asset name cannot be empty", <<>>)
  ELSE IF MatchString(a.Name) THEN Errorf("Invalid characters on asset name %s", <<a.Name>>)
  ELSE IF a.Value = "" THEN Errorf("Asset value for %s cannot be empty", <<a.Name>>)
  ELSE Nil

RequisitionCategory_IsValid(c) ==
  IF c.Name = <<>> THEN Errorf("Category name cannot be empty", <<>>)
  ELSE IF MatchString(c.Name) THEN Errorf("Invalid characters on category name %s", <<c.Name>>)
  ELSE Nil

\* --------------------------------------------------------------- interfaces
\* net.ParseIP accepts exactly the literal addresses; the resolver hands back
\* net.IP values, written here as the text their String() method yields.
LiteralAddresses == {"10.0.0.1", "10.0.0.2"}

Hosts == {"hostA", "hostB"}

ParseIP(s) == s \in LiteralAddresses

\* net.LookupIP(host) under the resolver answers d: (addresses, err).
LookupIP(d, host) == d[host]

DefaultStatus_Three(intf) ==
  IF intf.Status = 0 THEN [intf EXCEPT !.Status = 3] ELSE intf

DefaultStatus(intf) ==
  IF intf.Status = 0 THEN [intf EXCEPT !.Status = 1] ELSE intf

DefaultSnmpPrimary(intf) ==
  IF intf.SnmpPrimary = "" THEN [intf EXCEPT !.SnmpPrimary = "N"] ELSE intf

validateIP_LastAddress(intf, allow, d, lk) ==
  IF ParseIP(intf.IPAddress) THEN [obj |-> intf, err |-> Nil, lk |-> lk]
  ELSE IF allow
       THEN LET a == LookupIP(d, intf.IPAddress)
                lk1 == Append(lk, intf.IPAddress)
            IN  IF a.err \/ Len(a.addrs) = 0
                THEN [obj |-> intf, lk |-> lk1,
                      err |-> Errorf("Cannot get address from %s (invalid IP or FQDN); %s",
                                     <<intf.IPAddress>>)]
                ELSE [obj |-> [intf EXCEPT !.IPAddress = a.addrs[Len(a.addrs)]],
                      err |-> Nil, lk |-> lk1]
       ELSE [obj |-> intf, lk |-> lk,
             err |-> Errorf("%s is not a valid IPv4 or IPv6 address", <<intf.IPAddress>>)]

validateIP(intf, allow, d, lk) ==
  IF ParseIP(intf.IPAddress) THEN [obj |-> intf, err |-> Nil, lk |-> lk]
  ELSE IF allow
       THEN LET a == LookupIP(d, intf.IPAddress)
                lk1 == Append(lk, intf.IPAddress)
            IN  IF a.err \/ Len(a.addrs) = 0
                THEN [obj |-> intf, lk |-> lk1,
                      err |-> Errorf("Cannot get address from %s (invalid IP or FQDN); %s",
                                     <<intf.IPAddress>>)]
                ELSE [obj |-> [intf EXCEPT !.IPAddress = a.addrs[1]],
                      err |-> Nil, lk |-> lk1]
       ELSE [obj |-> intf, lk |-> lk,
             err |-> Errorf("%s is not a valid IPv4 or IPv6 address", <<intf.IPAddress>>)]

\* Number of entries of the sequence of keys ks equal to k: the value of
\* m[k] after `m[key]++` for every key of ks.
RECURSIVE CountKey(_, _)
CountKey(ks, k) ==
  IF ks = <<>> THEN 0
  ELSE (IF Head(ks) = k THEN 1 ELSE 0) + CountKey(Tail(ks), k)

\* The keys a `for key, count := range m { if count > 1 ...` loop can report.
CountedTwice(ks) == {ks[j] : j \in {x \in 1..Len(ks) : CountKey(ks, ks[x]) > 1}}

\* First loop of validateServices: names holds the keys counted so far, r is
\* the outcome of s.IsValid() on service i.
RECURSIVE ServicesLoop(_, _, _)
RECURSIVE ServicesLoopBody(_, _, _, _)
ServicesLoopBody(ss, i, names, r) ==
  IF r.err.kind # "nil"
  THEN [obj |-> [ss EXCEPT ![i] = r.obj], err |-> r.err, names |-> names]
  ELSE ServicesLoop([ss EXCEPT ![i] = r.obj], i + 1, Append(names, ss[i].Name))

ServicesLoop(ss, i, names) ==
  IF i > Len(ss) THEN [obj |-> ss, err |-> Nil, names |-> names]
  ELSE ServicesLoopBody(ss, i, names, RequisitionMonitoredService_IsValid(ss[i]))

\* Second loop of validateServices, on the outcome r of the first.
ServicesCounted(intf, r) ==
  IF r.err.kind # "nil" THEN [obj |-> [intf EXCEPT !.Services = r.obj], err |-> r.err]
  ELSE IF CountedTwice(r.names) # {}
       THEN [obj |-> [intf EXCEPT !.Services = r.obj],
             err |-> ErrorfRange("Service %s is defined more than once on interface %s",
                                 <<intf.IPAddress>>, CountedTwice(r.names))]
       ELSE [obj |-> [intf EXCEPT !.Services = r.obj], err |-> Nil]

validateServices(intf) == ServicesCounted(intf, ServicesLoop(intf.Services, 1, <<>>))

\* RequisitionInterface.IsValid from its meta-data loop on: i5 is the
\* interface as validateServices left it, r6 the outcome of the loop.
InterfaceMetaData(i5, lk, r6) == [obj |-> i5, lk |-> lk, err |-> r6.err]

\* ... from the outcome r5 of validateServices on.
InterfaceServices(r5, lk) ==
  IF r5.err.kind # "nil" THEN [obj |-> r5.obj, lk |-> lk, err |-> r5.err]
  ELSE InterfaceMetaData(r5.obj, lk, MetaDataLoopByCopy(r5.obj.MetaData, 1))

\* ... from the outcome r4 of validateIP on.
InterfaceAddress(r4) ==
  IF r4.err.kind # "nil" THEN r4
  ELSE InterfaceServices(validateServices(r4.obj), r4.lk)

\* ... from the snmp-primary check on, i2 having its default set.
InterfaceSnmpPrimary(i2, allow, d, lk) ==
  IF i2.SnmpPrimary # "P" /\ i2.SnmpPrimary # "S" /\ i2.SnmpPrimary # "N"
  THEN [obj |-> i2, lk |-> lk,
        err |-> Errorf("Invalid snmp-primary for interface %s: %s",
                       <<i2.IPAddress, i2.SnmpPrimary>>)]
  ELSE InterfaceAddress(validateIP(i2, allow, d, lk))

\* ... from the status check on, i1 having its default set.
InterfaceStatus(i1, allow, d, lk) ==
  IF i1.Status # 1 /\ i1.Status # 3
  THEN [obj |-> i1, lk |-> lk,
        err |-> Errorf("Invalid status for interface %s: %d", <<i1.IPAddress, i1.Status>>)]
  ELSE InterfaceSnmpPrimary(DefaultSnmpPrimary(i1), allow, d, lk)

\* The address resolved before status and snmp-primary are looked at.
InterfaceResolvedFirst(r4, allow, d) ==
  IF r4.err.kind # "nil" THEN r4
  ELSE InterfaceStatus(DefaultStatus(r4.obj), allow, d, r4.lk)

RequisitionInterface_IsValid_IPFirst(intf, allow, d, lk) ==
  IF intf.IPAddress = ""
  THEN [obj |-> intf, lk |-> lk, err |-> Errorf("IP Address cannot be empty", <<>>)]
  ELSE InterfaceResolvedFirst(validateIP(intf, allow, d, lk), allow, d)

RequisitionInterface_IsValid(intf, allow, d, lk) ==
  IF intf.IPAddress = ""
  THEN [obj |-> intf, lk |-> lk, err |-> Errorf("IP Address cannot be empty", <<>>)]
  ELSE InterfaceStatus(DefaultStatus(intf), allow, d, lk)

\* -------------------------------------------------------------------- nodes
\* Loop of validateInterfaces: ips holds the keys counted in intfMap, which
\* are the addresses as they stand BEFORE the interface is validated; r is
\* the outcome of intf.IsValid() on interface i.
RECURSIVE InterfacesLoop(_, _, _, _, _, _, _)
RECURSIVE InterfacesLoopBody(_, _, _, _, _, _, _)
InterfacesLoopBody(is, i, ips, primaryCount, allow, d, r) ==
  IF r.err.kind # "nil"
  THEN [obj |-> [is EXCEPT ![i] = r.obj], err |-> r.err, lk |-> r.lk, ips |-> ips,
        primaryCount |-> primaryCount]
  ELSE InterfacesLoop([is EXCEPT ![i] = r.obj], i + 1, ips, primaryCount, allow, d, r.lk)

InterfacesLoop(is, i, ips, primaryCount, allow, d, lk) ==
  IF i > Len(is)
  THEN [obj |-> is, err |-> Nil, lk |-> lk, ips |-> ips, primaryCount |-> primaryCount]
  ELSE InterfacesLoopBody(is, i, Append(ips, is[i].IPAddress),
                          IF is[i].SnmpPrimary = "P" THEN primaryCount + 1 ELSE primaryCount,
                          allow, d, RequisitionInterface_IsValid(is[i], allow, d, lk))

TooManyPrimaries_OffByOne(primaryCount) == primaryCount > 2

TooManyPrimaries(primaryCount) == primaryCount > 1

\* validateInterfaces after its first loop, with outcome r.
InterfacesCounted(n, r) ==
  IF r.err.kind # "nil"
  THEN [obj |-> [n EXCEPT !.Interfaces = r.obj], err |-> r.err, lk |-> r.lk]
  ELSE IF TooManyPrimaries(r.primaryCount)
       THEN [obj |-> [n EXCEPT !.Interfaces = r.obj], lk |-> r.lk,
             err |-> Errorf("Node %s cannot have more than one primary interface",
                            <<n.NodeLabel>>)]
       ELSE IF CountedTwice(r.ips) # {}
            THEN [obj |-> [n EXCEPT !.Interfaces = r.obj], lk |-> r.lk,
                  err |-> ErrorfRange("IP Address %s is defined more than once on node %s",
                                      <<n.NodeLabel>>, CountedTwice(r.ips))]
            ELSE [obj |-> [n EXCEPT !.Interfaces = r.obj], err |-> Nil, lk |-> r.lk]

validateInterfaces(n, allow, d, lk) ==
  InterfacesCounted(n, InterfacesLoop(n.Interfaces, 1, <<>>, 0, allow, d, lk))

RECURSIVE CategoriesLoop(_, _)
RECURSIVE CategoriesLoopBody(_, _, _)
CategoriesLoopBody(cs, i, e) == IF e.kind # "nil" THEN e ELSE CategoriesLoop(cs, i + 1)

CategoriesLoop(cs, i) ==
  IF i > Len(cs) THEN Nil ELSE CategoriesLoopBody(cs, i, RequisitionCategory_IsValid(cs[i]))

RECURSIVE AssetsLoop(_, _)
RECURSIVE AssetsLoopBody(_, _, _)
AssetsLoopBody(as, i, e) == IF e.kind # "nil" THEN e ELSE AssetsLoop(as, i + 1)

AssetsLoop(as, i) ==
  IF i > Len(as) THEN Nil ELSE AssetsLoopBody(as, i, RequisitionAsset_IsValid(as[i]))

SelfParentByLabel ==
  "The parent node cannot be the node itself. The parent-nodel-label has to be different than the node-label"

SelfParentByForeignID ==
  "The parent node cannot be the node itself. The parent-foreign-id has to be different than the foreign-id"

DefaultNodeLabel(n) ==
  IF n.NodeLabel = <<>> THEN [n EXCEPT !.NodeLabel = n.ForeignID] ELSE n

\* The three parent checks of RequisitionNode.IsValid, on the node with its
\* label already defaulted.
ParentChecks_SelfFirst(n) ==
  IF n.ParentNodeLabel = n.NodeLabel THEN Errorf(SelfParentByLabel, <<>>)
  ELSE IF n.ParentForeignID = n.ForeignID THEN Errorf(SelfParentByForeignID, <<>>)
  ELSE IF n.ParentForeignID # <<>> /\ n.ParentNodeLabel # <<>>
  THEN Errorf("Cannot set both parent foreign ID and parent node label on node %s, choose one",
              <<n.NodeLabel>>)
  ELSE Nil

ParentChecks(n) ==
  IF n.ParentForeignID # <<>> /\ n.ParentNodeLabel # <<>>
  THEN Errorf("Cannot set both parent foreign ID and parent node label on node %s, choose one",
              <<n.NodeLabel>>)
  ELSE IF n.ParentNodeLabel = n.NodeLabel THEN Errorf(SelfParentByLabel, <<>>)
  ELSE IF n.ParentForeignID = n.ForeignID THEN Errorf(SelfParentByForeignID, <<>>)
  ELSE Nil

\* RequisitionNode.IsValid from its meta-data loop on, with outcome r5.
NodeMetaData(n, lk, r5) == [obj |-> [n EXCEPT !.MetaData = r5.obj], lk |-> lk, err |-> r5.err]

\* ... from the outcome e4 of the asset loop on.
NodeAssets(n, lk, e4) ==
  IF e4.kind # "nil" THEN [obj |-> n, lk |-> lk, err |-> e4]
  ELSE NodeMetaData(n, lk, MetaDataLoopByPointer(n.MetaData, 1))

\* ... from the outcome e3 of the category loop on.
NodeCategories(n, lk, e3) ==
  IF e3.kind # "nil" THEN [obj |-> n, lk |-> lk, err |-> e3]
  ELSE NodeAssets(n, lk, AssetsLoop(n.Assets, 1))

\* ... from the outcome r2 of validateInterfaces on.
NodeInterfaces(r2) ==
  IF r2.err.kind # "nil" THEN r2
  ELSE NodeCategories(r2.obj, r2.lk, CategoriesLoop(r2.obj.Categories, 1))

\* ... from the parent checks on, n1 having its label defaulted and e1 being
\* the outcome of the parent checks.
NodeParents(n1, e1, allow, d, lk) ==
  IF e1.kind # "nil" THEN [obj |-> n1, lk |-> lk, err |-> e1]
  ELSE NodeInterfaces(validateInterfaces(n1, allow, d, lk))

NodeLabelled(n1, allow, d, lk) == NodeParents(n1, ParentChecks(n1), allow, d, lk)

RequisitionNode_IsValid(n, allow, d, lk) ==
  IF n.ForeignID = <<>>
  THEN [obj |-> n, lk |-> lk, err |-> Errorf("Foreign ID cannot be empty", <<>>)]
  ELSE IF MatchString(n.ForeignID)
  THEN [obj |-> n, lk |-> lk, err |-> Errorf("Invalid characters on Foreign ID %s", <<n.ForeignID>>)]
  ELSE NodeLabelled(DefaultNodeLabel(n), allow, d, lk)

\* -------------------------------------------------------------- requisitions
\* Loop of Requisition.IsValid: ids holds the keys counted in foreignIDs, r is
\* the outcome of n.IsValid() on node i.  A node's error is wrapped with the
\* node's label (as IsValid left it) and the requisition's name.
RECURSIVE NodesLoop(_, _, _, _, _, _, _)
RECURSIVE NodesLoopBody(_, _, _, _, _, _, _)
NodesLoopBody(ns, i, ids, name, allow, d, r) ==
  IF r.err.kind # "nil"
  THEN [obj |-> [ns EXCEPT ![i] = r.obj], lk |-> r.lk, ids |-> ids,
        err |-> [r.err EXCEPT !.wrap = <<r.obj.NodeLabel, name>>]]
  ELSE NodesLoop([ns EXCEPT ![i] = r.obj], i + 1, ids, name, allow, d, r.lk)

NodesLoop(ns, i, ids, name, allow, d, lk) ==
  IF i > Len(ns) THEN [obj |-> ns, err |-> Nil, lk |-> lk, ids |-> ids]
  ELSE NodesLoopBody(ns, i, Append(ids, ns[i].ForeignID), name, allow, d,
                     RequisitionNode_IsValid(ns[i], allow, d, lk))

DuplicateForeignIDs_None(ids) == {}

DuplicateForeignIDs(ids) == CountedTwice(ids)

\* Requisition.IsValid after its first loop, with outcome l.
NodesCounted(r, l) ==
  IF l.err.kind # "nil" THEN [obj |-> [r EXCEPT !.Nodes = l.obj], lk |-> l.lk, err |-> l.err]
  ELSE IF DuplicateForeignIDs(l.ids) # {}
       THEN [obj |-> [r EXCEPT !.Nodes = l.obj], lk |-> l.lk,
             err |-> ErrorfRange("Duplicate Foreign ID %s on requisition %s",
                                 <<r.Name>>, DuplicateForeignIDs(l.ids))]
       ELSE [obj |-> [r EXCEPT !.Nodes = l.obj], lk |-> l.lk, err |-> Nil]

\* Value receiver: Name cannot change, but r.Nodes shares its backing array
\* with the caller's slice, so every default set below it is visible.
Requisition_IsValid(r, allow, d, lk) ==
  IF r.Name = <<>>
  THEN [obj |-> r, lk |-> lk, err |-> Errorf("Requisition name cannot be empty", <<>>)]
  ELSE IF MatchString(r.Name)
  THEN [obj |-> r, lk |-> lk, err |-> Errorf("Invalid characters on requisition name %s", <<r.Name>>)]
  ELSE NodesCounted(r, NodesLoop(r.Nodes, 1, <<>>, r.Name, allow, d, lk))

\* ----------------------------------------------------- intf CLI subcommands
\* Argument checks of `intf list|get|add|delete <requisition> <foreignID>
\* [<ipAddress>]` as the tests of cli/provisioning pin them down: the error
\* message, or "" when the command ran to its end.
intfListInterfaces(args) ==
  IF Len(args) = 0 THEN "Requisition name and foreign ID required"
  ELSE IF Len(args) = 1 THEN "Foreign ID required"
  ELSE ""

intfGetInterface(args) ==
  IF Len(args) = 0 THEN "Requisition name, foreign ID, IP address required"
  ELSE IF Len(args) = 1 THEN "Foreign ID required"
  ELSE IF Len(args) = 2 THEN "IP Address required"
  ELSE ""

intfAddInterface(args) ==
  IF Len(args) = 0 THEN "Requisition name, foreign ID, IP address required"
  ELSE IF Len(args) = 1 THEN "Foreign ID required"
  ELSE IF Len(args) = 2 THEN "IP Address required"
  ELSE ""

intfDeleteInterface_NoIPCheck(args) ==
  IF Len(args) = 0 THEN "Requisition name, foreign ID, IP address required"
  ELSE IF Len(args) = 1 THEN "Foreign ID required"
  ELSE ""

intfDeleteInterface(args) ==
  IF Len(args) = 0 THEN "Requisition name, foreign ID, IP address required"
  ELSE IF Len(args) = 1 THEN "Foreign ID required"
  ELSE IF Len(args) = 2 THEN "IP address required"
  ELSE ""

\* ------------------------------------------------------------ daemon reload
\* Daemon names and the values of DaemonMap are sequences of characters.
CorrelatorPrefix == <<"c", "o", "r", "r", "e", "l", "a", "t", "i", "o", "n">>

DaemonMap ==
  (<<"a", "c", "k", "d">> :> <<"A", "c", "k", "d">>) @@
  (<<"a", "l", "a", "r", "m", "d">> :> <<"a", "l", "a", "r", "m", "d">>) @@
  (<<"b", "s", "m", "d">> :> <<"B", "s", "m", "d">>) @@
  (<<"c", "o", "l", "l", "e", "c", "t", "d">> :> <<"C", "o", "l", "l", "e", "c", "t", "d">>) @@
  (CorrelatorPrefix :> <<"D", "r", "o", "o", "l", "s", "C", "o", "r", "r", "e", "l", "a", "t", "i", "o", "n", "E", "n", "g", "i", "n", "e">>) @@
  (<<"d", "i", "s", "c", "o", "v", "e", "r", "d">> :> <<"D", "i", "s", "c", "o", "v", "e", "r", "y">>) @@
  (<<"e", "n", "l", "i", "n", "k", "d">> :> <<"E", "n", "l", "i", "n", "k", "d">>) @@
  (<<"e", "v", "e", "n", "t", "d">> :> <<"E", "v", "e", "n", "t", "d">>) @@
  (<<"t", "i", "c", "k", "e", "t", "d">> :> <<"T", "i", "c", "k", "e", "t", "d">>) @@
  (<<"s", "y", "s", "l", "o", "g", "d">> :> <<"s", "y", "s", "l", "o", "g", "d">>) @@
  (<<"t", "r", "a", "p", "d">> :> <<"t", "r", "a", "p", "d">>) @@
  (<<"t", "e", "l", "e", "m", "e", "t", "r", "y", "d">> :> <<"t", "e", "l", "e", "m", "e", "t", "r", "y", "d">>) @@
  (<<"n", "b", "i", "-", "e", "m", "a", "i", "l">> :> <<"E", "m", "a", "i", "l", "N", "B", "I">>) @@
  (<<"n", "b", "i", "-", "s", "n", "m", "p", "t", "r", "a", "p">> :> <<"S", "n", "m", "p", "T", "r", "a", "p", "N", "B", "I">>) @@
  (<<"n", "b", "i", "-", "s", "y", "s", "l", "o", "g">> :> <<"S", "y", "s", "l", "o", "g", "N", "B", "I">>) @@
  (<<"n", "o", "t", "i", "f", "d">> :> <<"N", "o", "t", "i", "f", "d">>) @@
  (<<"r", "e", "p", "o", "r", "t", "d">> :> <<"R", "e", "p", "o", "r", "t", "d">>) @@
  (<<"p", "o", "l", "l", "e", "r", "d">> :> <<"P", "o", "l", "l", "e", "r", "d">>) @@
  (<<"p", "o", "l", "l", "e", "r", "-", "b", "a", "c", "k", "e", "n", "d">> :> <<"P", "o", "l", "l", "e", "r", "B", "a", "c", "k", "E", "n", "d">>) @@
  (<<"p", "r", "o", "v", "i", "s", "i", "o", "n", "d">> :> <<"P", "r", "o", "v", "i", "s", "i", "o", "n", "d">>) @@
  (<<"p", "r", "o", "v", "i", "s", "i", "o", "n", "d", "-", "s", "n", "m", "p", "-", "a", "s", "s", "e", "t">> :> <<"P", "r", "o", "v", "i", "s", "i", "o", "n", "d", ".", "S", "n", "m", "p", "A", "s", "s", "e", "t", "P", "r", "o", "v", "i", "s", "i", "o", "n", "i", "n", "g", "A", "d", "a", "p", "t", "e", "r">>) @@
  (<<"p", "r", "o", "v", "i", "s", "i", "o", "n", "d", "-", "s", "n", "m", "p", "-", "h", "a", "r", "d", "w", "a", "r", "e", "-", "i", "n", "v", "e", "n", "t", "o", "r", "y">> :> <<"P", "r", "o", "v", "i", "s", "i", "o", "n", "d", ".", "S", "n", "m", "p", "H", "a", "r", "d", "w", "a", "r", "e", "I", "n", "v", "e", "n", "t", "o", "r", "y", "P", "r", "o", "v", "i", "s", "i", "o", "n", "i", "n", "g", "A", "d", "a", "p", "t", "e", "r">>) @@
  (<<"p", "r", "o", "v", "i", "s", "i", "o", "n", "d", "-", "w", "s", "m", "a", "n">> :> <<"W", "s", "M", "a", "n", "A", "s", "s", "e", "t", "P", "r", "o", "v", "i", "s", "i", "o", "n", "i", "n", "g", "A", "d", "a", "p", "t", "e", "r">>) @@
  (<<"s", "c", "r", "i", "p", "t", "d">> :> <<"S", "c", "r", "i", "p", "t", "d">>) @@
  (<<"s", "t", "a", "t", "s", "d">> :> <<"S", "t", "a", "t", "s", "d">>) @@
  (<<"t", "l", "1", "d">> :> <<"T", "l", "1", "d">>) @@
  (<<"t", "h", "r", "e", "s", "h", "d">> :> <<"T", "h", "r", "e", "s", "h", "d">>) @@
  (<<"t", "r", "a", "n", "s", "l", "a", "t", "o", "r">> :> <<"T", "r", "a", "n", "s", "l", "a", "t", "o", "r">>) @@
  (<<"v", "a", "c", "u", "u", "m", "d">> :> <<"V", "a", "c", "u", "u", "m", "d">>)

\* DaemonMap[k] in Go: the zero value "" for a key the map does not hold.
DaemonMapGet(k) == IF k \in DOMAIN DaemonMap THEN DaemonMap[k] ELSE <<>>

UpperToLower ==
  ("A" :> "a") @@ ("B" :> "b") @@ ("C" :> "c") @@ ("D" :> "d") @@ ("E" :> "e") @@ ("F" :> "f") @@ 
  ("G" :> "g") @@ ("H" :> "h") @@ ("I" :> "i") @@ ("J" :> "j") @@ ("K" :> "k") @@ ("L" :> "l") @@ 
  ("M" :> "m") @@ ("N" :> "n") @@ ("O" :> "o") @@ ("P" :> "p") @@ ("Q" :> "q") @@ ("R" :> "r") @@ 
  ("S" :> "s") @@ ("T" :> "t") @@ ("U" :> "u") @@ ("V" :> "v") @@ ("W" :> "w") @@ ("X" :> "x") @@ 
  ("Y" :> "y") @@ ("Z" :> "z")

\* strings.ToLower
RECURSIVE ToLower(_)
ToLower(s) ==
  IF s = <<>> THEN <<>>
  ELSE <<IF Head(s) \in DOMAIN UpperToLower THEN UpperToLower[Head(s)] ELSE Head(s)>>
       \o ToLower(Tail(s))

\* strings.HasPrefix
HasPrefix(s, prefix) == Len(s) >= Len(prefix) /\ SubSeq(s, 1, Len(prefix)) = prefix

\* strings.Split(s, ":"), cur being the field read so far.
RECURSIVE SplitFrom(_, _, _)
SplitFrom(s, i, cur) ==
  IF i > Len(s) THEN <<cur>>
  ELSE IF s[i] = ":" THEN <<cur>> \o SplitFrom(s, i + 1, <<>>)
  ELSE SplitFrom(s, i + 1, Append(cur, s[i]))

Split(s) == SplitFrom(s, 1, <<>>)

isValidDaemon(daemonName) ==
  IF ToLower(daemonName) \in DOMAIN DaemonMap THEN TRUE
  ELSE IF HasPrefix(ToLower(daemonName), CorrelatorPrefix) THEN TRUE
  ELSE FALSE

getDaemonName(id) ==
  IF HasPrefix(id, CorrelatorPrefix)
  THEN IF Len(Split(id)) = 2
       THEN DaemonMapGet(CorrelatorPrefix) \o <<":">> \o Split(id)[2]
       ELSE DaemonMapGet(CorrelatorPrefix)
  ELSE DaemonMapGet(id)

\* The event reloadDaemon builds for an accepted name.
ReloadEvent(daemonName, configFile) ==
  [UEI |-> "uei.opennms.org/internal/reloadDaemonConfig", Source |-> "onmsctl",
   Parameters |-> <<[Name |-> "daemonName", Value |-> getDaemonName(daemonName)]>> \o
                  (IF configFile # <<>> THEN <<[Name |-> "configFile", Value |-> configFile]>>
                   ELSE <<>>)]

\* reloadDaemon on the arguments args and the --configFile flag: the events
\* handed to SendEvent, and the error returned when SendEvent answers sendErr.
reloadDaemon(args, configFile, sendErr) ==
  IF args = <<>> THEN [sent |-> <<>>, err |-> Errorf("Daemon name required", <<>>)]
  ELSE IF ~isValidDaemon(args[1])
  THEN [sent |-> <<>>, err |-> Errorf("Invalid daemon name %s", <<args[1]>>)]
  ELSE [sent |-> <<ReloadEvent(args[1], configFile)>>,
        err |-> IF sendErr THEN Errorf("SendEvent", <<>>) ELSE Nil]

\* ------------------------------------------------------------------- inputs
SeqsUpTo(S, n) == UNION {[1..k -> S] : k \in 0..n}

InputChars == {"a", "b", "/", "\\", "?", ":", "&", "*", "'", "\""}

Names == SeqsUpTo(InputChars, MaxNameLen)

N1 == <<"n", "1">>
N2 == <<"n", "2">>
Lbl == <<"L">>

Meta(k, v, c) == [Key |-> k, Value |-> v, Context |-> c]

MetaDataInputs == {Meta(k, v, c) : k \in {"", "k"}, v \in {"", "v"}, c \in {"", "ctx"}}

MetaSmall == {Meta("k", "v", ""), Meta("k", "v", "ctx"), Meta("", "v", ""), Meta("k", "", "")}

Svc(n, ms) == [Name |-> n, MetaData |-> ms]

SvcSmall ==
  {Svc(<<"a">>, <<>>), Svc(<<"b">>, <<Meta("k", "v", "")>>), Svc(<<>>, <<Meta("k", "v", "")>>),
   Svc(<<"/">>, <<>>), Svc(<<"a">>, <<Meta("", "v", "")>>)}

ServiceInputs ==
  {Svc(n, <<>>) : n \in Names} \cup
  {Svc(n, ms) : n \in {<<>>, <<"a">>, <<"?">>}, ms \in SeqsUpTo(MetaSmall, MaxMetaData + 1)}

AssetInputs == {[Name |-> n, Value |-> v] : n \in Names, v \in {"", "v"}}

CategoryInputs == {[Name |-> n] : n \in Names}

Intf(ip, st, sp, ss, ms) ==
  [IPAddress |-> ip, Status |-> st, SnmpPrimary |-> sp, Services |-> ss, MetaData |-> ms]

InterfaceInputs ==
  {Intf(ip, st, sp, ss, ms) :
     ip \in {"", "10.0.0.1", "hostA", "hostB"}, st \in 0..3, sp \in {"", "P", "S", "N", "X"},
     ss \in {<<>>, <<Svc(<<>>, <<>>)>>, <<Svc(<<"a">>, <<Meta("k", "v", "")>>)>>},
     ms \in {<<>>, <<Meta("", "v", "")>>, <<Meta("k", "v", "")>>}} \cup
  {Intf(ip, 0, "", ss, ms) :
     ip \in {"10.0.0.1", "hostA"}, ss \in SeqsUpTo(SvcSmall, MaxServices),
     ms \in SeqsUpTo(MetaSmall, MaxMetaData)}

Answer(as, e) == [addrs |-> as, err |-> e]

NoResolver == [h \in Hosts |-> Answer(<<>>, TRUE)]

DnsA == [hostA |-> Answer(<<"10.0.0.1">>, FALSE), hostB |-> Answer(<<"10.0.0.2", "10.0.0.1">>, FALSE)]

DnsInputs ==
  {DnsA,
   [hostA |-> Answer(<<"10.0.0.1">>, FALSE), hostB |-> Answer(<<"10.0.0.1">>, FALSE)],
   [hostA |-> Answer(<<>>, TRUE), hostB |-> Answer(<<>>, FALSE)],
   [hostA |-> Answer(<<"10.0.0.2", "10.0.0.1">>, FALSE), hostB |-> Answer(<<>>, TRUE)]}

Node(fid, lbl, pfid, plbl, is, cs, as, ms) ==
  [ForeignID |-> fid, NodeLabel |-> lbl, ParentForeignID |-> pfid, ParentNodeLabel |-> plbl,
   Interfaces |-> is, Categories |-> cs, Assets |-> as, MetaData |-> ms]

IntfSmall ==
  {Intf(ip, 0, sp, <<>>, <<>>) :
     ip \in {"10.0.0.1", "10.0.0.2", "hostA", "hostB"}, sp \in {"", "P"}} \cup
  {Intf("", 0, "P", <<>>, <<>>), Intf("10.0.0.1", 2, "P", <<>>, <<>>),
   Intf("10.0.0.2", 3, "S", <<Svc(<<"a">>, <<Meta("k", "v", "")>>)>>, <<Meta("k", "v", "")>>)}

CatSeqs == {<<>>, <<[Name |-> <<"c">>]>>, <<[Name |-> <<"c", "*">>]>>,
            <<[Name |-> <<"c">>], [Name |-> <<>>]>>}

AssetSeqs == {<<>>, <<[Name |-> <<"a">>, Value |-> "v"]>>,
              <<[Name |-> <<"a">>, Value |-> "v"], [Name |-> <<"b">>, Value |-> ""]>>}

NodeNameInputs == {Node(fid, <<>>, <<>>, <<>>, <<>>, <<>>, <<>>, <<>>) : fid \in Names}

NodeParentInputs ==
  {Node(fid, lbl, pfid, plbl, is, cs, <<>>, ms) :
     fid \in {N1, <<"/">>, <<>>}, lbl \in {<<>>, N1, Lbl}, pfid \in {<<>>, N1, N2},
     plbl \in {<<>>, N1, Lbl},
     is \in {<<>>, <<Intf("", 0, "", <<>>, <<>>)>>,
             <<Intf("hostA", 0, "", <<Svc(<<"a">>, <<Meta("k", "v", "")>>)>>, <<>>)>>},
     cs \in {<<>>, <<[Name |-> <<>>]>>},
     ms \in {<<>>, <<Meta("k", "v", "")>>}}

NodeInterfaceInputs ==
  {Node(N1, <<>>, <<>>, <<>>, is, <<>>, <<>>, <<>>) : is \in SeqsUpTo(IntfSmall, MaxInterfaces)}

NodeChildInputs ==
  {Node(N1, Lbl, N2, <<>>, is, cs, as, ms) :
     is \in {<<>>, <<Intf("10.0.0.1", 0, "", <<>>, <<Meta("k", "v", "")>>)>>},
     cs \in CatSeqs, as \in AssetSeqs, ms \in SeqsUpTo(MetaSmall, MaxMetaData)}

NodeSmall ==
  {Node(N1, <<>>, <<>>, <<>>, <<Intf("10.0.0.1", 0, "", <<>>, <<>>)>>, <<>>, <<>>, <<>>),
   Node(N1, Lbl, <<>>, N2,
        <<Intf("hostA", 3, "P", <<Svc(<<"a">>, <<Meta("k", "v", "")>>)>>, <<Meta("k", "v", "")>>)>>,
        <<>>, <<>>, <<Meta("k", "v", ""), Meta("k", "v", "ctx")>>),
   Node(N2, <<>>, N1, <<>>, <<Intf("10.0.0.2", 1, "S", <<>>, <<>>)>>, <<>>, <<>>, <<>>),
   Node(N2, N1, <<>>, <<>>, <<Intf("hostB", 0, "", <<>>, <<>>)>>, <<>>, <<>>, <<>>),
   Node(N2, <<>>, <<>>, <<>>, <<Intf("10.0.0.2", 2, "", <<>>, <<>>)>>, <<>>, <<>>, <<>>),
   Node(<<>>, Lbl, <<>>, <<>>, <<>>, <<>>, <<>>, <<>>),
   Node(N1, <<>>, N1, <<>>, <<>>, <<>>, <<>>, <<>>)}

Req(name, ns) == [Name |-> name, Nodes |-> ns]

RequisitionNameInputs == {Req(name, <<>>) : name \in Names}

RequisitionTreeInputs ==
  {Req(name, ns) : name \in {<<"T">>, <<>>, <<"T", "/">>}, ns \in SeqsUpTo(NodeSmall, MaxNodes)}

ArgsInputs == {SubSeq(<<"Test", "n1", "10.0.0.1">>, 1, k) : k \in 0..3}

MaxSuffixLen == 2

LowerToUpper == [c \in {UpperToLower[u] : u \in DOMAIN UpperToLower} |->
                   CHOOSE u \in DOMAIN UpperToLower : UpperToLower[u] = c]

RECURSIVE UpperAll(_)
UpperAll(s) ==
  IF s = <<>> THEN <<>>
  ELSE <<IF Head(s) \in DOMAIN LowerToUpper THEN LowerToUpper[Head(s)] ELSE Head(s)>>
       \o UpperAll(Tail(s))

UpperFirst(s) == IF s = <<>> THEN s ELSE <<UpperAll(s)[1]>> \o Tail(s)

DaemonNameInputs ==
  {name \o suffix :
     name \in UNION {{k, UpperFirst(k), UpperAll(k)} : k \in DOMAIN DaemonMap \cup {<<"f", "o", "o">>, <<>>}},
     suffix \in SeqsUpTo({":", "e"}, MaxSuffixLen)}

DaemonArgsInputs == {<<>>} \cup {<<name>> : name \in DaemonNameInputs}

\* ------------------------------------------------------------ state machine
Init ==
  /\ pc = "idle"
  /\ op = "none"
  /\ AllowFqdnOnRequisitionedInterfaces = TRUE
  /\ dns = NoResolver
  /\ orig = <<>>
  /\ obj = <<>>
  /\ err = [kind |-> "nil", args |-> <<>>, key |-> <<>>, wrap |-> <<>>]
  /\ lookups = <<>>

\* The caller sets the process-wide toggle before validating.
SetAllowFqdn ==
  /\ pc = "idle"
  /\ AllowFqdnOnRequisitionedInterfaces' = ~AllowFqdnOnRequisitionedInterfaces
  /\ UNCHANGED <<pc, op, dns, orig, obj, err, lookups>>

\* The return of an entry point called on input `in` under resolver answers
\* d, with outcome r; the error names one of the keys the range loop may
\* report.
Returns(name, in, d, r) ==
  /\ pc' = "done"
  /\ op' = name
  /\ dns' = d
  /\ orig' = in
  /\ obj' = r.obj
  /\ lookups' = r.lk
  /\ \E k \in (IF r.err.dups = {} THEN {<<>>} ELSE {<<x>> : x \in r.err.dups}) :
       err' = [kind |-> r.err.kind, args |-> r.err.args, key |-> k, wrap |-> r.err.wrap]
  /\ UNCHANGED AllowFqdnOnRequisitionedInterfaces

MetaDataIsValid ==
  /\ pc = "idle"
  /\ \E m \in MetaDataInputs :
       Returns("RequisitionMetaData.IsValid", m, NoResolver,
               [obj |-> RequisitionMetaData_IsValid(m).obj,
                err |-> RequisitionMetaData_IsValid(m).err, lk |-> <<>>])

ServiceIsValid ==
  /\ pc = "idle"
  /\ \E s \in ServiceInputs :
       Returns("RequisitionMonitoredService.IsValid", s, NoResolver,
               [obj |-> RequisitionMonitoredService_IsValid(s).obj,
                err |-> RequisitionMonitoredService_IsValid(s).err, lk |-> <<>>])

AssetIsValid ==
  /\ pc = "idle"
  /\ \E a \in AssetInputs :
       Returns("RequisitionAsset.IsValid", a, NoResolver,
               [obj |-> a, err |-> RequisitionAsset_IsValid(a), lk |-> <<>>])

CategoryIsValid ==
  /\ pc = "idle"
  /\ \E c \in CategoryInputs :
       Returns("RequisitionCategory.IsValid", c, NoResolver,
               [obj |-> c, err |-> RequisitionCategory_IsValid(c), lk |-> <<>>])

InterfaceIsValid ==
  /\ pc = "idle"
  /\ \E i \in InterfaceInputs, d \in DnsInputs :
       Returns("RequisitionInterface.IsValid", i, d,
               RequisitionInterface_IsValid(i, AllowFqdnOnRequisitionedInterfaces, d, <<>>))

NodeIsValid ==
  /\ pc = "idle"
  /\ \E c \in ((NodeNameInputs \cup NodeParentInputs \cup NodeChildInputs) \X {DnsA})
              \cup (NodeInterfaceInputs \X DnsInputs) :
       Returns("RequisitionNode.IsValid", c[1], c[2],
               RequisitionNode_IsValid(c[1], AllowFqdnOnRequisitionedInterfaces, c[2], <<>>))

RequisitionIsValid ==
  /\ pc = "idle"
  /\ \E c \in (RequisitionNameInputs \X {NoResolver}) \cup (RequisitionTreeInputs \X DnsInputs) :
       Returns("Requisition.IsValid", c[1], c[2],
               Requisition_IsValid(c[1], AllowFqdnOnRequisitionedInterfaces, c[2], <<>>))

\* The return of an `intf` subcommand: obj.ran is TRUE when it ran to its end.
CliReturns(name, argv, msg) ==
  /\ pc' = "done"
  /\ op' = name
  /\ orig' = [args |-> argv]
  /\ obj' = [ran |-> msg = ""]
  /\ err' = [kind |-> IF msg = "" THEN "nil" ELSE msg, args |-> <<>>, key |-> <<>>, wrap |-> <<>>]
  /\ UNCHANGED <<AllowFqdnOnRequisitionedInterfaces, dns, lookups>>

IntfList ==
  /\ pc = "idle"
  /\ \E argv \in ArgsInputs : CliReturns("intf list", argv, intfListInterfaces(argv))

IntfGet ==
  /\ pc = "idle"
  /\ \E argv \in ArgsInputs : CliReturns("intf get", argv, intfGetInterface(argv))

IntfAdd ==
  /\ pc = "idle"
  /\ \E argv \in ArgsInputs : CliReturns("intf add", argv, intfAddInterface(argv))

IntfDelete ==
  /\ pc = "idle"
  /\ \E argv \in ArgsInputs : CliReturns("intf delete", argv, intfDeleteInterface(argv))

\* The return of a second IsValid on the tree `in` a first, successful call
\* left behind, under the same toggle and the same resolver answers.
ReturnsAgain(in, r) ==
  /\ pc' = "again"
  /\ orig' = in
  /\ obj' = r.obj
  /\ lookups' = r.lk
  /\ \E k \in (IF r.err.dups = {} THEN {<<>>} ELSE {<<x>> : x \in r.err.dups}) :
       err' = [kind |-> r.err.kind, args |-> r.err.args, key |-> k, wrap |-> r.err.wrap]
  /\ UNCHANGED <<op, dns, AllowFqdnOnRequisitionedInterfaces>>

NodeIsValidAgain ==
  /\ pc = "done"
  /\ op = "RequisitionNode.IsValid"
  /\ err.kind = "nil"
  /\ ReturnsAgain(obj, RequisitionNode_IsValid(obj, AllowFqdnOnRequisitionedInterfaces, dns, <<>>))

RequisitionIsValidAgain ==
  /\ pc = "done"
  /\ op = "Requisition.IsValid"
  /\ err.kind = "nil"
  /\ ReturnsAgain(obj, Requisition_IsValid(obj, AllowFqdnOnRequisitionedInterfaces, dns, <<>>))

\* One run of `daemon reload`: obj.sent holds the events handed to SendEvent.
ReloadReturns(argv, configFile, r) ==
  /\ pc' = "done"
  /\ op' = "daemon reload"
  /\ orig' = [args |-> argv, configFile |-> configFile]
  /\ obj' = [sent |-> r.sent]
  /\ err' = [kind |-> r.err.kind, args |-> r.err.args, key |-> <<>>, wrap |-> <<>>]
  /\ UNCHANGED <<AllowFqdnOnRequisitionedInterfaces, dns, lookups>>

DaemonReload ==
  /\ pc = "idle"
  /\ \E argv \in DaemonArgsInputs, configFile \in {<<>>, <<"f">>}, sendErr \in BOOLEAN :
       ReloadReturns(argv, configFile, reloadDaemon(argv, configFile, sendErr))

Next ==
  \/ SetAllowFqdn
  \/ MetaDataIsValid
  \/ ServiceIsValid
  \/ AssetIsValid
  \/ CategoryIsValid
  \/ InterfaceIsValid
  \/ NodeIsValid
  \/ RequisitionIsValid
  \/ IntfList
  \/ IntfGet
  \/ IntfAdd
  \/ IntfDelete
  \/ NodeIsValidAgain
  \/ RequisitionIsValidAgain
  \/ DaemonReload

Spec == Init /\ [][Next]_vars

\* =================================================================== claims
Done(name) == pc = "done" /\ op = name

Ok == err.kind = "nil"

\* The context a meta-data entry must carry after a successful validation.
ContextsDefaulted(before, after) ==
  /\ Len(after) = Len(before)
  /\ \A i \in 1..Len(before) :
       after[i].Context = IF before[i].Context = "" THEN "requisition" ELSE before[i].Context

ServiceContexts(before, after) == ContextsDefaulted(before.MetaData, after.MetaData)

InterfaceContexts(before, after) ==
  /\ ContextsDefaulted(before.MetaData, after.MetaData)
  /\ \A i \in 1..Len(before.Services) : ServiceContexts(before.Services[i], after.Services[i])

NodeContexts(before, after) ==
  /\ ContextsDefaulted(before.MetaData, after.MetaData)
  /\ \A i \in 1..Len(before.Interfaces) :
       InterfaceContexts(before.Interfaces[i], after.Interfaces[i])

PrimaryInterfaces(is) == {i \in 1..Len(is) : is[i].SnmpPrimary = "P"}

HasForbiddenCharacter(s) ==
  \E i \in 1..Len(s) : s[i] \in {"/", "\\", "?", ":", "&", "*", "'", "\""}

\* C1: after a successful RequisitionNode.IsValid the ipAddress values of the
\* node's interfaces, as validation left them (resolved addresses included),
\* are pairwise distinct.
C1_ValidatedAddressesDistinct ==
  (Done("RequisitionNode.IsValid") /\ Ok) =>
    \A i, j \in 1..Len(obj.Interfaces) :
      i # j => obj.Interfaces[i].IPAddress # obj.Interfaces[j].IPAddress

\* C2: after a successful IsValid on a requisition, node, interface or
\* monitored service, every meta-data entry of the validated tree whose
\* context was empty has context "requisition", and every other entry keeps
\* its context.
C2_ContextDefaultedEverywhere ==
  /\ (Done("RequisitionMonitoredService.IsValid") /\ Ok) => ServiceContexts(orig, obj)
  /\ (Done("RequisitionInterface.IsValid") /\ Ok) => InterfaceContexts(orig, obj)
  /\ (Done("RequisitionNode.IsValid") /\ Ok) => NodeContexts(orig, obj)
  /\ (Done("Requisition.IsValid") /\ Ok) =>
       \A i \in 1..Len(orig.Nodes) : NodeContexts(orig.Nodes[i], obj.Nodes[i])

\* C3: after a successful Requisition.IsValid every node's label is its
\* original label, or its foreign ID when the label was empty; every
\* interface's status is its original status, or 1 when it was 0, hence 1 or
\* 3; every interface's snmpPrimary is its original value, or "N" when it
\* was empty, hence one of P, S, N.
C3_DefaultsFilled ==
  (Done("Requisition.IsValid") /\ Ok) =>
    /\ Len(obj.Nodes) = Len(orig.Nodes)
    /\ \A i \in 1..Len(orig.Nodes) :
         LET o == orig.Nodes[i]
             n == obj.Nodes[i]
         IN  /\ n.NodeLabel = IF o.NodeLabel # <<>> THEN o.NodeLabel ELSE o.ForeignID
             /\ Len(n.Interfaces) = Len(o.Interfaces)
             /\ \A j \in 1..Len(o.Interfaces) :
                  /\ n.Interfaces[j].Status =
                       IF o.Interfaces[j].Status # 0 THEN o.Interfaces[j].Status ELSE 1
                  /\ n.Interfaces[j].Status \in {1, 3}
                  /\ n.Interfaces[j].SnmpPrimary =
                       IF o.Interfaces[j].SnmpPrimary # "" THEN o.Interfaces[j].SnmpPrimary ELSE "N"
                  /\ n.Interfaces[j].SnmpPrimary \in {"P", "S", "N"}

C3_Witness ==
  /\ Done("Requisition.IsValid") /\ Ok
  /\ \E i \in 1..Len(orig.Nodes) :
       /\ orig.Nodes[i].NodeLabel = <<>>
       /\ obj.Nodes[i].NodeLabel = N1
       /\ \E j \in 1..Len(orig.Nodes[i].Interfaces) :
            /\ orig.Nodes[i].Interfaces[j].Status = 0
            /\ orig.Nodes[i].Interfaces[j].SnmpPrimary = ""
            /\ obj.Nodes[i].Interfaces[j].Status = 1
  /\ \E i \in 1..Len(orig.Nodes) : orig.Nodes[i].Interfaces[1].SnmpPrimary = "S"

\* C4: Requisition.IsValid returns the duplicate-foreign-ID error exactly
\* when the requisition name is valid, every node passes
\* RequisitionNode.IsValid on its own and some foreign ID occurs in more than
\* one node; with a valid name, passing nodes and distinct foreign IDs it
\* succeeds; with a valid name and a failing node it returns that node's
\* wrapped error, duplicate foreign IDs or not.
C4_DuplicateForeignID ==
  Done("Requisition.IsValid") =>
    LET nameValid == orig.Name # <<>> /\ ~HasForbiddenCharacter(orig.Name)
        passes(i) ==
          RequisitionNode_IsValid(orig.Nodes[i], AllowFqdnOnRequisitionedInterfaces,
                                  dns, <<>>).err.kind = "nil"
        allPass == \A i \in 1..Len(orig.Nodes) : passes(i)
        repeated == \E i, j \in 1..Len(orig.Nodes) :
                      i # j /\ orig.Nodes[i].ForeignID = orig.Nodes[j].ForeignID
        duplicate == err.kind = "Duplicate Foreign ID %s on requisition %s"
    IN  /\ duplicate <=> (nameValid /\ allPass /\ repeated)
        /\ duplicate => (err.wrap = <<>> /\ err.key \in {<<orig.Nodes[i].ForeignID>> : i \in 1..Len(orig.Nodes)})
        /\ (nameValid /\ allPass /\ ~repeated) => Ok
        /\ (nameValid /\ ~allPass) => (err.wrap # <<>> /\ err.kind # "nil" /\ ~duplicate)

C4_Witness ==
  /\ Done("Requisition.IsValid")
  /\ err.kind = "Duplicate Foreign ID %s on requisition %s"
  /\ err.key = <<N2>>
  /\ Len(orig.Nodes) = 2
  /\ orig.Nodes[1] # orig.Nodes[2]

\* C5: a node with two or more interfaces carrying snmpPrimary "P" never
\* passes RequisitionNode.IsValid, the more-than-one-primary error is
\* returned only to such a node, and a validated node has at most one
\* interface with snmpPrimary "P".
C5_AtMostOnePrimary ==
  Done("RequisitionNode.IsValid") =>
    /\ Cardinality(PrimaryInterfaces(orig.Interfaces)) >= 2 => ~Ok
    /\ err.kind = "Node %s cannot have more than one primary interface" =>
         Cardinality(PrimaryInterfaces(orig.Interfaces)) >= 2
    /\ Ok => Cardinality(PrimaryInterfaces(obj.Interfaces)) <= 1

C5_Witness ==
  /\ Done("RequisitionNode.IsValid")
  /\ err.kind = "Node %s cannot have more than one primary interface"
  /\ Cardinality(PrimaryInterfaces(orig.Interfaces)) = 2
  /\ orig.Interfaces[1].IPAddress # orig.Interfaces[2].IPAddress

\* C6: for a node with a non-empty foreign ID free of forbidden characters,
\* RequisitionNode.IsValid fails with the mutual-exclusion error when both
\* parent fields are set, and otherwise with a self-parent error when the
\* parent foreign ID is the node's foreign ID or the parent label is the
\* node's (defaulted) label; in both cases no interface, category, asset or
\* meta-data entry has been validated or changed.
C6_ParentChecksFirst ==
  (Done("RequisitionNode.IsValid") /\ orig.ForeignID # <<>> /\ ~HasForbiddenCharacter(orig.ForeignID)) =>
    LET label == IF orig.NodeLabel = <<>> THEN orig.ForeignID ELSE orig.NodeLabel
        both == orig.ParentForeignID # <<>> /\ orig.ParentNodeLabel # <<>>
        self == orig.ParentForeignID = orig.ForeignID \/ orig.ParentNodeLabel = label
        untouched == /\ obj.Interfaces = orig.Interfaces
                     /\ obj.Categories = orig.Categories
                     /\ obj.Assets = orig.Assets
                     /\ obj.MetaData = orig.MetaData
                     /\ lookups = <<>>
    IN  /\ both =>
             /\ err.kind = "Cannot set both parent foreign ID and parent node label on node %s, choose one"
             /\ untouched
        /\ (~both /\ self) =>
             /\ err.kind \in {SelfParentByLabel, SelfParentByForeignID}
             /\ untouched

C6_Witness ==
  /\ Done("RequisitionNode.IsValid")
  /\ err.kind = "Cannot set both parent foreign ID and parent node label on node %s, choose one"
  /\ orig.ParentForeignID = orig.ForeignID
  /\ orig.NodeLabel = <<>>
  /\ Len(orig.Interfaces) = 1
  /\ orig.Interfaces[1].IPAddress = "hostA"
  /\ AllowFqdnOnRequisitionedInterfaces
  /\ orig.MetaData # <<>>

\* C7: for an interface with a non-empty ipAddress and valid status and
\* snmpPrimary: a literal address is never looked up and stays as it is; a
\* non-literal with the toggle off fails with the not-a-valid-address error,
\* unchanged and without a lookup; with the toggle on and an answer of at
\* least one address, ipAddress becomes the first address of the answer and
\* validation goes on to the services; with the toggle on and a failed or
\* empty answer it fails with the cannot-get-address error, unchanged.
C7_AddressResolution ==
  (/\ Done("RequisitionInterface.IsValid")
   /\ orig.IPAddress # ""
   /\ orig.Status \in {0, 1, 3}
   /\ orig.SnmpPrimary \in {"", "P", "S", "N"}) =>
    LET literal == orig.IPAddress \in {"10.0.0.1", "10.0.0.2"}
        answer == dns[orig.IPAddress]
        resolved == ~answer.err /\ Len(answer.addrs) >= 1
        notValid == err.kind = "%s is not a valid IPv4 or IPv6 address"
        cannotGet == err.kind = "Cannot get address from %s (invalid IP or FQDN); %s"
    IN  /\ literal =>
             lookups = <<>> /\ obj.IPAddress = orig.IPAddress /\ ~notValid /\ ~cannotGet
        /\ (~literal /\ ~AllowFqdnOnRequisitionedInterfaces) =>
             notValid /\ obj.IPAddress = orig.IPAddress /\ lookups = <<>>
        /\ (~literal /\ AllowFqdnOnRequisitionedInterfaces /\ resolved) =>
             /\ obj.IPAddress = answer.addrs[1]
             /\ lookups = <<orig.IPAddress>>
             /\ ~notValid /\ ~cannotGet
             /\ (\A i \in 1..Len(orig.Services) :
                   RequisitionMonitoredService_IsValid(orig.Services[i]).err.kind = "nil") =>
                  \A i \in 1..Len(orig.Services) : ServiceContexts(orig.Services[i], obj.Services[i])
        /\ (~literal /\ AllowFqdnOnRequisitionedInterfaces /\ ~resolved) =>
             cannotGet /\ obj.IPAddress = orig.IPAddress /\ lookups = <<orig.IPAddress>>

C7_Witness ==
  /\ Done("RequisitionInterface.IsValid") /\ Ok
  /\ orig.IPAddress = "hostB"
  /\ obj.IPAddress = "10.0.0.2"
  /\ dns["hostB"].addrs = <<"10.0.0.2", "10.0.0.1">>
  /\ lookups = <<"hostB">>

\* C8: IsValid of a monitored service, asset, category, node or requisition
\* returns the invalid-characters error for its name (foreign ID for a node)
\* exactly when that name is non-empty and contains one of / \ ? : & * ' ".
C8_ForbiddenCharacters ==
  /\ Done("RequisitionMonitoredService.IsValid") =>
       (err.kind = "Invalid characters on service name %s"
          <=> (orig.Name # <<>> /\ HasForbiddenCharacter(orig.Name)))
  /\ Done("RequisitionAsset.IsValid") =>
       (err.kind = "Invalid characters on asset name %s"
          <=> (orig.Name # <<>> /\ HasForbiddenCharacter(orig.Name)))
  /\ Done("RequisitionCategory.IsValid") =>
       (err.kind = "Invalid characters on category name %s"
          <=> (orig.Name # <<>> /\ HasForbiddenCharacter(orig.Name)))
  /\ Done("RequisitionNode.IsValid") =>
       (err.kind = "Invalid characters on Foreign ID %s"
          <=> (orig.ForeignID # <<>> /\ HasForbiddenCharacter(orig.ForeignID)))
  /\ Done("Requisition.IsValid") =>
       (err.kind = "Invalid characters on requisition name %s"
          <=> (orig.Name # <<>> /\ HasForbiddenCharacter(orig.Name)))

C8_Witness ==
  /\ Done("RequisitionAsset.IsValid")
  /\ err.kind = "Invalid characters on asset name %s"
  /\ orig.Name = <<"a", ":">>
  /\ orig.Value = "v"

\* The message an `intf` subcommand returns for the arguments given, with
\* ipMessage the message for a missing IP address ("" is no error).
IntfMessage(command, args, ipMessage) ==
  IF Len(args) = 0
  THEN IF command = "intf list" THEN "Requisition name and foreign ID required"
       ELSE "Requisition name, foreign ID, IP address required"
  ELSE IF Len(args) = 1 THEN "Foreign ID required"
  ELSE IF Len(args) = 2 /\ command # "intf list" THEN ipMessage
  ELSE ""

IntfDone == pc = "done" /\ op \in {"intf list", "intf get", "intf add", "intf delete"}

\* C9 as stated: every intf subcommand that needs an IP address answers
\* "IP Address required" when only requisition and foreign ID are given.
C9_AsStated ==
  IntfDone =>
    LET msg == IntfMessage(op, orig.args, "IP Address required")
    IN  /\ err.kind = (IF msg = "" THEN "nil" ELSE msg)
        /\ obj.ran = (msg = "")

\* C9: each intf subcommand checks requisition name, foreign ID and (get,
\* add, delete) IP address in that order; with a required argument missing
\* it returns the error naming it and does not run to its end: all required
\* items with no argument, "Foreign ID required" with the requisition only,
\* and with requisition and foreign ID only "IP Address required" from get
\* and add but "IP address required" from delete; with all required
\* arguments it returns no error.
C9_ArgumentChecks ==
  IntfDone =>
    LET msg == IntfMessage(op, orig.args, IF op = "intf delete" THEN "IP address required"
                                     ELSE "IP Address required")
    IN  /\ err.kind = (IF msg = "" THEN "nil" ELSE msg)
        /\ obj.ran = (msg = "")

C9_Witness ==
  /\ Done("intf delete")
  /\ orig.args = <<"Test", "n1">>
  /\ err.kind = "IP address required"
  /\ obj.ran = FALSE

\* C10: RequisitionInterface.IsValid returns the failure of the earliest
\* failing step of (1) empty ipAddress, (2) status, (3) snmpPrimary, (4)
\* address, (5) services in order, then duplicate service names, (6)
\* meta-data in order, and performs no later step: no lookup and no change
\* past the failing step; the duplicate-service error is returned only when
\* every service passes on its own.
C10_EarliestFailure ==
  Done("RequisitionInterface.IsValid") =>
    LET st == IF orig.Status = 0 THEN 1 ELSE orig.Status
        sp == IF orig.SnmpPrimary = "" THEN "N" ELSE orig.SnmpPrimary
        host == orig.IPAddress \notin {"10.0.0.1", "10.0.0.2"}
        f1 == orig.IPAddress = ""
        f2 == st \notin {1, 3}
        f3 == sp \notin {"P", "S", "N"}
        f4 == host /\ (\/ ~AllowFqdnOnRequisitionedInterfaces
                       \/ dns[orig.IPAddress].err
                       \/ dns[orig.IPAddress].addrs = <<>>)
        svcErr(i) == RequisitionMonitoredService_IsValid(orig.Services[i]).err
        badSvc == {i \in 1..Len(orig.Services) : svcErr(i).kind # "nil"}
        dupSvc == \E i, j \in 1..Len(orig.Services) :
                    i # j /\ orig.Services[i].Name = orig.Services[j].Name
        badMeta == {i \in 1..Len(orig.MetaData) :
                      orig.MetaData[i].Key = "" \/ orig.MetaData[i].Value = ""}
        first(S) == CHOOSE i \in S : \A j \in S : i <= j
        before4 == f1 \/ f2 \/ f3
        before5 == before4 \/ f4
        before6 == before5 \/ badSvc # {} \/ dupSvc
        duplicate == err.kind = "Service %s is defined more than once on interface %s"
    IN  /\ f1 => (err.kind = "IP Address cannot be empty" /\ obj = orig)
        /\ (~f1 /\ f2) =>
             /\ err.kind = "Invalid status for interface %s: %d"
             /\ obj.SnmpPrimary = orig.SnmpPrimary
        /\ (~f1 /\ ~f2 /\ f3) => err.kind = "Invalid snmp-primary for interface %s: %s"
        /\ before4 => (lookups = <<>> /\ obj.IPAddress = orig.IPAddress)
        /\ (~before4 /\ f4) =>
             err.kind \in {"%s is not a valid IPv4 or IPv6 address",
                           "Cannot get address from %s (invalid IP or FQDN); %s"}
        /\ before5 => obj.Services = orig.Services
        /\ (~before5 /\ badSvc # {}) =>
             /\ err.kind = svcErr(first(badSvc)).kind
             /\ err.args = svcErr(first(badSvc)).args
             /\ \A i \in 1..Len(orig.Services) :
                  i > first(badSvc) => obj.Services[i] = orig.Services[i]
        /\ (~before5 /\ badSvc = {} /\ dupSvc) => duplicate
        /\ duplicate => (badSvc = {} /\ dupSvc /\ ~before5)
        /\ (~before6 /\ badMeta # {}) =>
             err.kind = IF orig.MetaData[first(badMeta)].Key = ""
                        THEN "Meta-data key cannot be empty"
                        ELSE "Meta-data value for key %s cannot be empty"
        /\ (~before6 /\ badMeta = {}) => Ok
        /\ Ok => (~before6 /\ badMeta = {})

C10_Witness ==
  /\ Done("RequisitionInterface.IsValid")
  /\ err.kind = "Invalid status for interface %s: %d"
  /\ orig.IPAddress = "hostA"
  /\ orig.SnmpPrimary = "X"
  /\ AllowFqdnOnRequisitionedInterfaces
  /\ dns["hostA"].addrs # <<>>
  /\ orig.Services # <<>>
  /\ lookups = <<>>

\* C11: a second IsValid on a node or requisition that a first IsValid
\* accepted, under the same toggle and resolver answers, succeeds and changes
\* no field.
C11_Idempotent ==
  pc = "again" => (err.kind = "nil" /\ obj = orig)

\* C12: for every daemon name reloadDaemon accepts, the reload event it
\* sends carries a non-empty daemonName parameter: the DaemonMap value
\* registered for the name (compared without regard to case), or for a
\* correlation engine "DroolsCorrelationEngine", followed by ":<engine>" when
\* the name has the form correlation:<engine>.
C12_DaemonNameCarried ==
  (Done("daemon reload") /\ obj.sent # <<>>) =>
    LET name == orig.args[1]
        lower == ToLower(name)
        drools == <<"D", "r", "o", "o", "l", "s", "C", "o", "r", "r", "e", "l", "a", "t", "i",
                    "o", "n", "E", "n", "g", "i", "n", "e">>
        value == obj.sent[1].Parameters[1].Value
    IN  /\ Len(obj.sent) = 1
        /\ obj.sent[1].Parameters[1].Name = "daemonName"
        /\ value # <<>>
        /\ lower \in DOMAIN DaemonMap => value = DaemonMap[lower]
        /\ lower \notin DOMAIN DaemonMap =>
             /\ SubSeq(value, 1, Len(drools)) = drools
             /\ \A engine \in SeqsUpTo({"e"}, MaxSuffixLen + 1) :
                  lower = CorrelatorPrefix \o <<":">> \o engine =>
                    value = drools \o <<":">> \o engine

====
